---- MODULE Spec2Model ----
(***************************************************************************)
(* A model of the three-stage transform pipeline of the data-engineering   *)
(* portfolio (src/transform/*.py, src/utils/*.py).                         *)
(*                                                                         *)
(* Tables are sequences of rows (pandas keeps row order); a row is a       *)
(* record of its columns.  Timestamps are integers of a logical clock,     *)
(* pd.NaT is the integer NaT, a null measure is the integer NULL.          *)
(***************************************************************************)
EXTENDS Integers, Sequences, FiniteSets, TLC

\* ------------------------------------------------------------------------
\* Bounds
\* ------------------------------------------------------------------------
MaxBatch == 2       \* rows in one incoming batch of the history driver
MaxRuns == 3        \* runs of apply_scd_type2 in one chain
MaxRows == 1        \* rows in one batch the source lands
MaxLandings == 2    \* batches the source lands
MaxClock == 2       \* per-cube steps of the Silver stage
MaxFaults == 1      \* saves that fail
MaxCubes == 5       \* cubes of the extraction's configuration
MaxLen == 4         \* rows of a table a function is called on
MaxWindow == 3      \* window of a rolling average
MaxFrameRows == 2   \* rows of a frame whose columns are cast
MaxLimit == 2       \* limit of a search request

\* ------------------------------------------------------------------------
\* Values
\* ------------------------------------------------------------------------
NaT == 0            \* pd.NaT: the open EndDate
Cube == "sales"     \* the cube whose history is driven
SalesValues == {10, 20}
QuantityValues == {1, 2}

\* silver_transform.py:29, and the merge key of line 103
SCD_TYPE2_COLUMNS == {"Sales", "Quantity"}
OnColumns == {"cube_name"} \cup SCD_TYPE2_COLUMNS

\* One row of a Bronze snapshot, as far as the history merge reads it.
IncomingRow == [cube_name : {Cube}, Sales : SalesValues, Quantity : QuantityValues]

RECURSIVE SeqsUpTo(_, _)
SeqsUpTo(S, n) ==
    IF n = 0 THEN {<<>>}
    ELSE LET shorter == SeqsUpTo(S, n - 1)
         IN  shorter \cup {Append(s, x) : s \in {t \in shorter : Len(t) = n - 1}, x \in S}

Batches == SeqsUpTo(IncomingRow, MaxBatch)

Range(s) == {s[i] : i \in DOMAIN s}

\* The entity identity of a row: its values on the merge key.
Identity(r) == [cube_name |-> r.cube_name, Sales |-> r.Sales, Quantity |-> r.Quantity]

\* ------------------------------------------------------------------------
\* apply_scd_type2 (silver_transform.py:89-110)
\* ------------------------------------------------------------------------

\* Lines 95-99: the copy of the batch, tagged as the current version.
ScdColumns == {"EffectiveDate", "EndDate", "CurrentFlag"}

TagRow(r, t) ==
    [c \in DOMAIN r \cup ScdColumns |->
        IF c = "EffectiveDate" THEN t
        ELSE IF c = "EndDate" THEN NaT
        ELSE IF c = "CurrentFlag" THEN TRUE
        ELSE r[c]]

TagIncoming(df, t) == [i \in DOMAIN df |-> TagRow(df[i], t)]

\* The columns of the tagged batch, and of a history (an earlier output).
DfColumns == OnColumns \cup ScdColumns
HistoricalColumns == DfColumns

\* pd.merge names its result's columns: a key column keeps its name, a
\* column of both frames that is not a key gets the suffix _x (left) and
\* _y (right), a column of one frame keeps its name; indicator=True adds
\* _merge.
MergedColumns(leftCols, rightCols, on) ==
    LET overlap == (leftCols \cap rightCols) \ on
    IN  {[name |-> c, suffix |-> ""] : c \in on \cup ((leftCols \cup rightCols) \ overlap)}
        \cup {[name |-> c, suffix |-> "_x"] : c \in overlap}
        \cup {[name |-> c, suffix |-> "_y"] : c \in overlap}
        \cup {[name |-> "_merge", suffix |-> ""]}

\* The rows of a left join of df with the history on the key: every row of
\* df once per history row of equal key (whatever its CurrentFlag), in the
\* order of df, or once with indicator left_only when no history row has
\* its key.  right is the index of the matched history row, 0 for none.
RECURSIVE MergeFrom(_, _, _)
MergeFrom(df, hist, i) ==
    IF i > Len(df) THEN <<>>
    ELSE LET matches == SelectSeq([j \in DOMAIN hist |-> j],
                                  LAMBDA j : Identity(hist[j]) = Identity(df[i]))
             mine == IF matches = <<>>
                     THEN <<[left |-> df[i], right |-> 0, indicator |-> "left_only"]>>
                     ELSE [k \in DOMAIN matches |->
                             [left |-> df[i], right |-> matches[k], indicator |-> "both"]]
         IN  mine \o MergeFrom(df, hist, i + 1)

Merge(df, hist) == MergeFrom(df, hist, 1)

\* Line 104: the merged rows that matched no history row.
Updated(df, hist) == SelectSeq(Merge(df, hist), LAMBDA m : m.indicator = "left_only")

\* Lines 107-108: historical_df is changed in place; every row whose
\* cube_name occurs in updated gets CurrentFlag = False and EndDate = now.
MarkOutdated(hist, updated, t) ==
    LET cubes == {updated[k].left.cube_name : k \in DOMAIN updated}
    IN  [j \in DOMAIN hist |->
            IF hist[j].cube_name \in cubes
            THEN [hist[j] EXCEPT !.CurrentFlag = FALSE, !.EndDate = t]
            ELSE hist[j]]

\* Line 109, updated[df.columns]: a KeyError when a label of df.columns is
\* not a column of merged.
SelectRaises(labels, mergedCols) ==
    \E c \in labels : [name |-> c, suffix |-> ""] \notin mergedCols

\* The call as a whole.  history is [isNone, rows]; the result tells
\* whether the call returned or raised, the frame it returned, and the
\* rows of the caller's historical_df object after the call.
apply_scd_type2(batch_df, history, t) ==
    LET df == TagIncoming(batch_df, t)
    IN  IF history.isNone
        THEN [kind |-> "returned", df |-> df, historical_df |-> history]
        ELSE LET updated == Updated(df, history.rows)
                 merged_cols == MergedColumns(DfColumns, HistoricalColumns, OnColumns)
             IN  IF updated = <<>>
                 THEN [kind |-> "returned", df |-> df, historical_df |-> history]
                 ELSE LET marked == MarkOutdated(history.rows, updated, t)
                      IN  IF SelectRaises(DfColumns, merged_cols)
                          THEN [kind |-> "raised", df |-> <<>>,
                                historical_df |-> [isNone |-> FALSE, rows |-> marked]]
                          ELSE [kind |-> "returned",
                                df |-> marked \o [k \in DOMAIN updated |-> updated[k].left],
                                historical_df |-> [isNone |-> FALSE, rows |-> marked]]

\* ------------------------------------------------------------------------
\* Quality gate (src/utils/data_quality.py)
\* ------------------------------------------------------------------------
NULL == -1          \* NaN / None in a numeric column

NA_STRING == "<NA>" \* a missing value in a string column

NumericColumns == {"Sales", "Quantity", "Sales_sum", "Sales_max", "Sales_min", "Quantity_sum"}
DateColumns == {"EffectiveDate", "EndDate"}
MeanColumns == {"Sales_mean", "Quantity_mean"}
StringColumns == {"cube_name", "Region", "partition_month"}

\* Series.isna() on one cell of column c.
IsNa(c, v) ==
    IF c \in NumericColumns THEN v = NULL
    ELSE IF c \in DateColumns THEN v = NaT
    ELSE IF c \in MeanColumns THEN v.den = 0
    ELSE IF c \in StringColumns THEN v = NA_STRING
    ELSE FALSE

Columns(df) == IF df = <<>> THEN {} ELSE DOMAIN df[1]

NullCount(df, c) == Cardinality({i \in DOMAIN df : IsNa(c, df[i][c])})

\* Line 34, null_ratio > threshold, for the ratio nulls/len and the
\* threshold num/den.
ExceedsOrEquals(nulls, len, threshold) == nulls * threshold.den >= threshold.num * len

Exceeds(nulls, len, threshold) == nulls * threshold.den > threshold.num * len

\* Line 35, round(null_ratio, 4): the ratio in units of RATIO_UNIT-ths,
\* rounded to the nearest unit and to the even one when it is half-way.
RATIO_UNIT == 10000

Round4(nulls, len) ==
    LET q == (nulls * RATIO_UNIT) \div len
        rem == (nulls * RATIO_UNIT) % len
    IN  IF 2 * rem > len \/ (2 * rem = len /\ q % 2 = 1) THEN q + 1 ELSE q

\* validate_nulls (lines 20-36): the columns whose null ratio is greater
\* than the threshold, each with its rounded ratio.  A frame without rows
\* reports nothing (the mean of an empty column is NaN, and NaN > threshold
\* is false).
validate_nulls(df, threshold) ==
    LET over == {c \in Columns(df) : Exceeds(NullCount(df, c), Len(df), threshold)}
    IN  [c \in over |-> Round4(NullCount(df, c), Len(df))]

ZeroThreshold == [num |-> 0, den |-> 1]

\* validate_duplicates on the whole row (subset = None): df.duplicated()
\* marks a row that equals an earlier row; the report has the count and
\* up to 5 of the marked rows, and is empty when the count is 0.
DupMask(df) == [i \in DOMAIN df |-> \E j \in 1..(i - 1) : df[j] = df[i]]

SAMPLE_ROWS == 5

validate_duplicates(df) ==
    LET dups == SelectSeq([i \in DOMAIN df |-> i], LAMBDA i : DupMask(df)[i])
    IN  IF Len(dups) > 0
        THEN [num_duplicates |-> Len(dups),
              sample_rows |-> [k \in 1..(IF Len(dups) < SAMPLE_ROWS THEN Len(dups) ELSE SAMPLE_ROWS)
                                  |-> df[dups[k]]]]
        ELSE [num_duplicates |-> 0, sample_rows |-> <<>>]

\* validate_ranges: ranges is a set of [col, min, max]; without ranges the
\* report is empty.  A null is neither below min nor above max.
validate_ranges(df, ranges) ==
    LET below(r) == Cardinality({i \in DOMAIN df : df[i][r.col] # NULL /\ df[i][r.col] < r.min})
        above(r) == Cardinality({i \in DOMAIN df : df[i][r.col] # NULL /\ df[i][r.col] > r.max})
        bad == {r \in ranges : r.col \in Columns(df) /\ (below(r) > 0 \/ above(r) > 0)}
    IN  {[col |-> r.col, min_violation |-> below(r), max_violation |-> above(r)] : r \in bad}

NoRanges == {}

\* run_data_quality of the three stages: the keys of the issues report,
\* the audit event, and the frame handed back.
IssueKeys(df, withRanges) ==
    (IF DOMAIN validate_nulls(df, ZeroThreshold) # {} THEN {"nulls"} ELSE {})
    \cup (IF validate_duplicates(df).num_duplicates > 0 THEN {"duplicates"} ELSE {})
    \cup (IF withRanges /\ validate_ranges(df, NoRanges) # {} THEN {"range_violations"} ELSE {})

\* bronze_transform.py:86-110
run_data_quality_bronze(df) ==
    LET issues == IssueKeys(df, TRUE)
    IN  [kind |-> "returned", df |-> df, issues |-> issues,
         event |-> IF issues # {} THEN "data_quality_issues" ELSE "data_quality_pass"]

\* silver_transform.py:112-127
run_data_quality_silver(df) ==
    LET issues == IssueKeys(df, FALSE)
    IN  [kind |-> "returned", df |-> df, issues |-> issues,
         event |-> IF issues # {} THEN "silver_data_quality_issues" ELSE "silver_data_quality_pass"]

\* A gate that halts: it raises when it has something to report.
run_data_quality_blocking(df) ==
    LET issues == IssueKeys(df, FALSE)
    IN  [kind |-> IF issues # {} THEN "raised" ELSE "returned", df |-> df, issues |-> issues,
         event |-> IF issues # {} THEN "gold_data_quality_issues" ELSE "gold_data_quality_pass"]

\* gold_transform.py:85-100
run_data_quality_gold(df) ==
    LET issues == IssueKeys(df, FALSE)
    IN  [kind |-> "returned", df |-> df, issues |-> issues,
         event |-> IF issues # {} THEN "gold_data_quality_issues" ELSE "gold_data_quality_pass"]


\* ------------------------------------------------------------------------
\* Bronze helpers (src/transform/bronze_transform.py)
\* ------------------------------------------------------------------------
Period == "2025-11"     \* a value of the partition_month column

\* A frame of the pipeline: its rows and the dtypes of its measure columns.
Frame(rows, dtypes) == [rows |-> rows, dtypes |-> dtypes]

HasNull(rows, c) == \E i \in DOMAIN rows : rows[i][c] = NULL

\* The dtypes pandas gives the measure columns read from the source:
\* Sales is a float column, Quantity an integer column, which is float64
\* when a value is missing.
InferDtypes(rows) ==
    [Sales |-> "float64",
     Quantity |-> IF HasNull(rows, "Quantity") THEN "float64" ELSE "int64"]

\* COLUMN_TYPES (lines 31-39), in the order the loop of line 65 visits it.
COLUMN_TYPES ==
    <<[col |-> "Sales", dtype |-> "float"],
      [col |-> "Quantity", dtype |-> "int"],
      [col |-> "Date", dtype |-> "datetime64[ns]"],
      [col |-> "Region", dtype |-> "string"],
      [col |-> "Country", dtype |-> "string"],
      [col |-> "City", dtype |-> "string"],
      [col |-> "Product", dtype |-> "string"]>>

\* The dtype a column has after astype(dtype).
TargetDtype(dtype) ==
    IF dtype = "float" THEN "float64"
    ELSE IF dtype = "int" THEN "int64"
    ELSE dtype

UNPARSABLE == -2    \* a text that is neither a number nor a date

\* astype(dtype) of column c raises (line 67): a text that is no number
\* cannot become a float or an int, a text that is no date cannot become a
\* datetime, a NaN cannot become an int; everything can become a string.
CastFails(df, c, dtype) ==
    IF dtype = "string" THEN FALSE
    ELSE \E i \in DOMAIN df.rows :
            \/ df.rows[i][c] = UNPARSABLE
            \/ dtype = "int" /\ df.rows[i][c] = NULL

\* Lines 68-69: the exception is caught and logged, and the loop goes on
\* with the next column.
StopAtFailure(k) == Len(COLUMN_TYPES) + 1

AfterFailure(k) == k + 1

\* enforce_column_types (lines 61-71) from the k-th entry of COLUMN_TYPES
\* on: a column the frame has (the model follows the columns of
\* df.dtypes) is cast; a cast that raises leaves the column as it was.  A
\* cast changes no value of the model's integers.
RECURSIVE EnforceFrom(_, _)
EnforceFrom(df, k) ==
    IF k > Len(COLUMN_TYPES) THEN df
    ELSE LET col == COLUMN_TYPES[k].col
             dtype == COLUMN_TYPES[k].dtype
         IN  IF col \notin DOMAIN df.dtypes THEN EnforceFrom(df, k + 1)
             ELSE IF CastFails(df, col, dtype) THEN EnforceFrom(df, AfterFailure(k))
             ELSE EnforceFrom([df EXCEPT !.dtypes[col] = TargetDtype(dtype)], k + 1)

enforce_column_types(df) == EnforceFrom(df, 1)

\* pd.to_datetime(df["Date"]).dt.to_period('M') (line 81) of one cell: a
\* date is the number yyyymmdd, its period the text yyyy-mm of the two
\* months of the model.
MonthOf(date) == IF date \div 100 = 202511 THEN "2025-11" ELSE "2025-12"

\* add_metadata_columns (lines 73-84): cube_name is set, and the partition
\* column is added to a frame that has none: the month of the row's Date
\* when the frame has a Date column, otherwise the month of the run
\* (month, line 83).  bronze_extraction_time, which nothing reads, is left
\* out.
add_metadata_columns(df, cube_name, month) ==
    Frame([i \in DOMAIN df.rows |->
              [c \in DOMAIN df.rows[i] \cup {"cube_name", "partition_month"} |->
                  IF c = "cube_name" THEN cube_name
                  ELSE IF c = "partition_month" /\ c \notin DOMAIN df.rows[i]
                       THEN IF "Date" \in DOMAIN df.rows[i] THEN MonthOf(df.rows[i].Date)
                            ELSE month
                  ELSE df.rows[i][c]]],
          df.dtypes)

\* ------------------------------------------------------------------------
\* Gold helpers (src/transform/gold_transform.py)
\* ------------------------------------------------------------------------
\* A mean, or a ratio: num/den, null when den = 0.
Ratio(n, d) == [num |-> n, den |-> d]
NullRatio == Ratio(0, 0)

\* enrich_with_dimensions (lines 55-68): SalesPerUnit = Sales / Quantity,
\* with 1 for a Quantity of 0.
enrich_with_dimensions(rows) ==
    [i \in DOMAIN rows |->
        IF {"Sales", "Quantity"} \subseteq DOMAIN rows[i]
        THEN [c \in DOMAIN rows[i] \cup {"SalesPerUnit"} |->
                 IF c = "SalesPerUnit"
                 THEN IF rows[i].Sales = NULL \/ rows[i].Quantity = NULL THEN NullRatio
                      ELSE Ratio(rows[i].Sales, IF rows[i].Quantity = 0 THEN 1 ELSE rows[i].Quantity)
                 ELSE rows[i][c]]
        ELSE rows[i]]

\* AGGREGATIONS (lines 30-33) and the names of the flattened columns
\* (line 80).
AGGREGATIONS ==
    {[col |-> "Sales", func |-> "sum", name |-> "Sales_sum"],
     [col |-> "Sales", func |-> "mean", name |-> "Sales_mean"],
     [col |-> "Sales", func |-> "max", name |-> "Sales_max"],
     [col |-> "Sales", func |-> "min", name |-> "Sales_min"],
     [col |-> "Quantity", func |-> "sum", name |-> "Quantity_sum"],
     [col |-> "Quantity", func |-> "mean", name |-> "Quantity_mean"]}

\* group_by_cols of transform_gold_layer (line 128)
GROUP_BY_COLS == <<"Region", "Country", "City", "Product", "partition_month">>

RECURSIVE SumSeq(_)
SumSeq(s) == IF s = <<>> THEN 0 ELSE Head(s) + SumSeq(Tail(s))

Max(S) == CHOOSE x \in S : \A y \in S : y <= x
Min(S) == CHOOSE x \in S : \A y \in S : x <= y

\* One aggregate over the values of a group; nulls are skipped.
Aggregate(func, values) ==
    LET present == SelectSeq(values, LAMBDA v : v # NULL)
    IN  IF func = "sum" THEN SumSeq(present)
        ELSE IF func = "mean"
             THEN IF present = <<>> THEN NullRatio ELSE Ratio(SumSeq(present), Len(present))
        ELSE IF present = <<>> THEN NULL
        ELSE IF func = "max" THEN Max(Range(present))
        ELSE Min(Range(present))

\* The order groupby sorts the values of a key column in.
ColumnOrder(c) ==
    IF c = "Region" THEN <<"A", "B">>
    ELSE IF c = "partition_month" THEN <<"2025-11", "2025-12">>
    ELSE <<>>

Rank(c, v) == CHOOSE k \in DOMAIN ColumnOrder(c) : ColumnOrder(c)[k] = v

KeyLess(k1, k2, group_by) ==
    \E p \in DOMAIN group_by :
        /\ \A q \in 1..(p - 1) : k1[group_by[q]] = k2[group_by[q]]
        /\ Rank(group_by[p], k1[group_by[p]]) < Rank(group_by[p], k2[group_by[p]])

RECURSIVE SortKeys(_, _)
SortKeys(keys, group_by) ==
    IF keys = {} THEN <<>>
    ELSE LET least == CHOOSE k \in keys : \A o \in keys \ {k} : KeyLess(k, o, group_by)
         IN  <<least>> \o SortKeys(keys \ {least}, group_by)

\* aggregate_gold (lines 70-83).  Without a measure column the frame is
\* returned as it is; groupby with no key raises; a row with a null key is
\* in no group; the groups come sorted by key.
aggregate_gold(rows, group_by) ==
    LET agg_dict == {a \in AGGREGATIONS : a.col \in Columns(rows)}
        keyOf(r) == [c \in Range(group_by) |-> r[c]]
        keyed == SelectSeq(rows, LAMBDA r : \A c \in Range(group_by) : ~IsNa(c, r[c]))
        keys == SortKeys({keyOf(r) : r \in Range(keyed)}, group_by)
        group(k) == SelectSeq(keyed, LAMBDA r : keyOf(r) = k)
        valuesOf(k, col) == [i \in DOMAIN group(k) |-> group(k)[i][col]]
    IN  IF agg_dict = {} THEN [kind |-> "returned", rows |-> rows]
        ELSE IF group_by = <<>> THEN [kind |-> "raised", rows |-> <<>>]
        ELSE [kind |-> "returned",
              rows |-> [n \in DOMAIN keys |->
                           [c \in Range(group_by) \cup {a.name : a \in agg_dict} |->
                               IF c \in Range(group_by) THEN keys[n][c]
                               ELSE LET a == CHOOSE x \in agg_dict : x.name = c
                                    IN  Aggregate(a.func, valuesOf(keys[n], a.col))]]]


\* ------------------------------------------------------------------------
\* KPIs (src/utils/metrics.py)
\* ------------------------------------------------------------------------
ROLLING_WINDOW == 3

ColumnValues(rows, c) == [i \in DOMAIN rows |-> rows[i][c]]

LastN(s, n) == SubSeq(s, IF Len(s) > n THEN Len(s) - n + 1 ELSE 1, Len(s))

\* rolling(window, min_periods=1) of lines 62 and 64: a position has a
\* value when its window holds at least min_periods observations.
min_periods_default(window) == window

min_periods(window) == 1

\* Series.rolling(window, min_periods).mean() as pandas computes it: one
\* pass that keeps the sum and the number of observations of the window,
\* adds the value that enters at position i and removes the value that
\* leaves (position i - window); a null is no observation.
RECURSIVE RollState(_, _, _)
RollState(values, window, i) ==
    IF i = 0 THEN [sum_x |-> 0, nobs |-> 0]
    ELSE LET prev == RollState(values, window, i - 1)
             added == IF values[i] = NULL THEN prev
                      ELSE [sum_x |-> prev.sum_x + values[i], nobs |-> prev.nobs + 1]
         IN  IF i - window >= 1 /\ values[i - window] # NULL
             THEN [sum_x |-> added.sum_x - values[i - window], nobs |-> added.nobs - 1]
             ELSE added

RollingMean(values, window) ==
    [i \in DOMAIN values |->
        LET st == RollState(values, window, i)
        IN  IF st.nobs >= min_periods(window) /\ st.nobs > 0
            THEN Ratio(st.sum_x, st.nobs)
            ELSE NullRatio]

\* rolling_average (lines 55-64) without group_by: a column the frame
\* does not have gives a series of zeros of the frame's length.
rolling_average(df, column, window) ==
    IF column \notin Columns(df)
    THEN [i \in DOMAIN df |-> Ratio(0, 1)]
    ELSE RollingMean(ColumnValues(df, column), window)

\* The KPI columns of the measure columns, lines 75-80 and 84-85; Stock
\* has no rolling average.
KPI_COLUMNS ==
    {[col |-> "Sales", total |-> "total_sales", avg |-> "avg_sales", max |-> "max_sales",
      min |-> "min_sales", cumulative |-> "cumulative_sales", rolling_avg |-> "rolling_avg_sales"],
     [col |-> "Quantity", total |-> "total_quantity", avg |-> "avg_quantity",
      max |-> "max_quantity", min |-> "min_quantity", cumulative |-> "cumulative_quantity",
      rolling_avg |-> "rolling_avg_quantity"],
     [col |-> "Stock", total |-> "total_stock", avg |-> "avg_stock", max |-> "max_stock",
      min |-> "min_stock", cumulative |-> "cumulative_stock", rolling_avg |-> ""]}

\* total, mean, maximum and minimum (lines 20-42) of a column of a frame
\* with the columns cols: 0.0 for a column the frame has not, and, except
\* for total, for a frame without rows; nulls are skipped.
total(rows, cols, column) ==
    IF column \in cols THEN Aggregate("sum", ColumnValues(rows, column)) ELSE 0

mean(rows, cols, column) ==
    IF column \in cols /\ Len(rows) > 0
    THEN Aggregate("mean", ColumnValues(rows, column))
    ELSE Ratio(0, 1)

maximum(rows, cols, column) ==
    IF column \in cols /\ Len(rows) > 0 THEN Aggregate("max", ColumnValues(rows, column)) ELSE 0

minimum(rows, cols, column) ==
    IF column \in cols /\ Len(rows) > 0 THEN Aggregate("min", ColumnValues(rows, column)) ELSE 0

\* cumulative(df, col).iloc[-1] (lines 44-53 and 80): the last value of
\* the cumulative sum, null where the last value of the column is null;
\* iloc[-1] of a series without values raises IndexError.
LastCumulative(rows, column) ==
    LET v == ColumnValues(rows, column)
    IN  IF rows = <<>> THEN [kind |-> "raised", value |-> NULL]
        ELSE [kind |-> "returned",
              value |-> IF v[Len(v)] = NULL THEN NULL ELSE Aggregate("sum", v)]

\* calculate_kpis (lines 70-91) on a frame with the columns cols: a map
\* from KPI name to value.  It raises where cumulative(df, col).iloc[-1]
\* does.
calculate_kpis(rows, cols) ==
    LET used == {k \in KPI_COLUMNS : k.col \in cols}
        names == UNION {{k.total, k.avg, k.max, k.min, k.cumulative, k.rolling_avg} : k \in used}
                 \ {""}
        value(n) ==
            LET k == CHOOSE u \in used : n \in {u.total, u.avg, u.max, u.min, u.cumulative, u.rolling_avg}
            IN  IF n = k.total THEN total(rows, cols, k.col)
                ELSE IF n = k.avg THEN mean(rows, cols, k.col)
                ELSE IF n = k.max THEN maximum(rows, cols, k.col)
                ELSE IF n = k.min THEN minimum(rows, cols, k.col)
                ELSE IF n = k.cumulative THEN LastCumulative(rows, k.col).value
                ELSE Aggregate("mean", LastN(ColumnValues(rows, k.col), ROLLING_WINDOW))
    IN  IF \E k \in used : LastCumulative(rows, k.col).kind = "raised"
        THEN [kind |-> "raised", kpis |-> <<>>]
        ELSE [kind |-> "returned", kpis |-> [n \in names |-> value(n)]]

\* ------------------------------------------------------------------------
\* State of the history chain: a driver that calls apply_scd_type2 run
\* after run with the frame it holds as historical_df, the way
\* transform_silver_layer holds historical_data[cube_name] (lines 157-167).
\* ------------------------------------------------------------------------
VARIABLES
    historical_df,  \* the history frame the driver holds: [isNone, rows]
    batch,          \* the batch of the latest run
    ret,            \* the outcome of the latest run: [kind, df]
    now,            \* datetime.now() of the latest run; also the number of runs
    seen            \* the identities that occurred in any batch so far

\* State of the pipeline: the snapshot files of the three tiers and the
\* position of the stage entry point that is running.
VARIABLES
    bronze_files,     \* ./data/bronze/<cube>_bronze.parquet, per cube
    silver_files,     \* ./data/silver/<cube>_silver.parquet, per cube
    gold_files,       \* ./data/gold/<cube>_gold.parquet, per cube
    stage,            \* the entry point that is running, or "idle"
    all_cubes,        \* the frames the running entry point read at its start
    todo,             \* the cubes its loop has not processed yet
    historical_data,  \* the local dict of transform_silver_layer (line 149)
    hist_df,          \* hist_df of the latest pass of the Silver loop (line 157)
    gate,             \* the latest pass of the running loop and what its quality gate did
    outcome,          \* how the latest entry point ended
    clock,            \* datetime.now() of the pipeline
    landings,         \* the number of batches the source has landed
    errors,           \* the error events the latest entry point logged: [cube, op]
    faults            \* the number of saves that failed so far

\* State of the extraction: the futures of extract_all_cubes and its own
\* position.
VARIABLES
    futures,        \* per cube, the call of extract_cube made for it
    extraction      \* extract_all_cubes: its mode, its results dict, what it reported

\* The latest call of one of the functions that are checked on their own.
VARIABLES
    call            \* [fn, args, result]

scdVars == <<historical_df, batch, ret, now, seen>>

pipeVars == <<bronze_files, silver_files, gold_files, stage, all_cubes, todo,
              historical_data, hist_df, gate, outcome, clock, landings, errors,
              faults>>

auxVars == <<futures, extraction, call>>

vars == <<scdVars, pipeVars, auxVars>>

NoHistory == [isNone |-> TRUE, rows |-> <<>>]

ScdInit ==
    /\ historical_df = NoHistory
    /\ batch = <<>>
    /\ ret = [kind |-> "none", df |-> <<>>]
    /\ now = 0
    /\ seen = {}

\* One run.  When the call returns, its output is the history of the next
\* run (line 167); when it raises, the driver still holds the frame the
\* call changed in place (lines 169-170 assign nothing).
RunScd(b) ==
    /\ now < MaxRuns
    /\ LET r == apply_scd_type2(b, historical_df, now + 1)
       IN  /\ ret' = [kind |-> r.kind, df |-> r.df]
           /\ historical_df' = IF r.kind = "returned"
                               THEN [isNone |-> FALSE, rows |-> r.df]
                               ELSE r.historical_df
    /\ batch' = b
    /\ now' = now + 1
    /\ seen' = seen \cup {Identity(x) : x \in Range(b)}
    /\ UNCHANGED <<pipeVars, auxVars>>

RunHistoryStage == \E b \in Batches : RunScd(b)

\* ------------------------------------------------------------------------
\* The history claims, stated of the chain
\* ------------------------------------------------------------------------
IsOpen(r) == r.CurrentFlag = TRUE /\ r.EndDate = NaT

OpenRowsOf(rows, id) == {i \in DOMAIN rows : Identity(rows[i]) = id /\ IsOpen(rows[i])}

Identities == [cube_name : {Cube}, Sales : SalesValues, Quantity : QuantityValues]

\* A step of the chain that is a run, made with a history.
RunWithHistory == now' = now + 1 /\ ~historical_df.isNone

\* C1: after any sequence of runs, every identity has at most one row of
\* the history with CurrentFlag = true and EndDate = null.
C1_AtMostOneOpenRow ==
    \A id \in Identities : Cardinality(OpenRowsOf(historical_df.rows, id)) <= 1

\* C2: after N >= 1 runs, every identity that occurred in any of the
\* batches has exactly one open row of the history.
C2_ExactlyOneOpenRow ==
    now >= 1 => \A id \in seen : Cardinality(OpenRowsOf(historical_df.rows, id)) = 1

\* C3: a run with a history returns, no prior history row is missing from
\* its output (each is there unmodified, or closed at now if it was
\* current), and the rows of the output that are not prior rows are exactly
\* the incoming rows that had no matching current history row, opened at
\* now.
HasCurrentMatch(rows, x) == \E j \in DOMAIN rows : Identity(rows[j]) = Identity(x) /\ IsOpen(rows[j])

C3_OutputIsHistoryPlusNewRows ==
    [][RunWithHistory =>
        /\ ret'.kind = "returned"
        /\ \A j \in DOMAIN historical_df.rows :
              \/ historical_df.rows[j] \in Range(ret'.df)
              \/ /\ IsOpen(historical_df.rows[j])
                 /\ [historical_df.rows[j] EXCEPT !.CurrentFlag = FALSE, !.EndDate = now']
                        \in Range(ret'.df)
        /\ {r \in Range(ret'.df) : r.EffectiveDate = now'}
              = {r \in Range(TagIncoming(batch', now')) :
                    ~HasCurrentMatch(historical_df.rows, r)}
      ]_vars

\* C4: a run on the batch of the run before it, with that run's output as
\* history, returns the output of the run before it, and no row of it
\* carries the second run's EffectiveDate.
C4_ChangeSuppression ==
    [][(now' = now + 1 /\ ret.kind = "returned" /\ batch' = batch) =>
        /\ ret'.kind = "returned"
        /\ ret'.df = ret.df
        /\ \A r \in Range(ret'.df) : r.EffectiveDate # now'
      ]_vars

\* C5: a closed row of the history is in the history after every later
\* run, with every field unchanged.
C5_ClosedRowsKept ==
    [][\A j \in DOMAIN historical_df.rows :
          ~historical_df.rows[j].CurrentFlag =>
              historical_df.rows[j] \in Range(historical_df'.rows)
      ]_vars

\* C6: in a run with a history an incoming row is discarded as unchanged
\* (it is not among the updated rows) exactly when the history has a row
\* with CurrentFlag = true of its cube_name, Sales and Quantity.
C6_UnchangedIffCurrentMatch ==
    [][RunWithHistory =>
        LET df == TagIncoming(batch', now')
            updated == Updated(df, historical_df.rows)
        IN  \A i \in DOMAIN df :
               (df[i] \notin {updated[k].left : k \in DOMAIN updated})
                   <=> \E j \in DOMAIN historical_df.rows :
                          /\ historical_df.rows[j].CurrentFlag
                          /\ Identity(historical_df.rows[j]) = Identity(df[i])
      ]_vars

\* C7: the (EffectiveDate, EndDate) intervals of the rows of one identity
\* do not overlap, a closed row ends where the identity's next version
\* starts, and only the latest version is open.
Later(rows, i) == {k \in DOMAIN rows : k # i /\ Identity(rows[k]) = Identity(rows[i])
                                         /\ rows[k].EffectiveDate >= rows[i].EffectiveDate}

C7_IntervalsContiguous ==
    LET rows == historical_df.rows
    IN  \A i \in DOMAIN rows :
           /\ IsOpen(rows[i]) => Later(rows, i) = {}
           /\ ~IsOpen(rows[i]) =>
                 \A k \in Later(rows, i) : rows[k].EffectiveDate >= rows[i].EndDate
           /\ (~IsOpen(rows[i]) /\ Later(rows, i) # {}) =>
                 \E k \in Later(rows, i) : rows[k].EffectiveDate = rows[i].EndDate

\* C8: a row that is current before a run and whose identity is not in the
\* batch is in the output of the run, still current.
C8_CarryOver ==
    [][RunWithHistory =>
        \A j \in DOMAIN historical_df.rows :
           (/\ IsOpen(historical_df.rows[j])
            /\ Identity(historical_df.rows[j]) \notin {Identity(x) : x \in Range(batch')})
             => /\ ret'.kind = "returned"
                /\ historical_df.rows[j] \in Range(ret'.df)
      ]_vars

\* ------------------------------------------------------------------------
\* The pipeline: the source lands batches, and the three entry points run
\* one at a time, each over the cubes it read at its start, in any order.
\* ------------------------------------------------------------------------
Cubes == {"c1", "c2"}
RegionValues == {"A"}
PipeSales == {NULL, 10}
PipeQuantity == {1}
Months == {"2025-11", "2025-12"}

\* A row as extract_cube hands it on (extract_mdx.py:80-90): the columns
\* of the query, the partition column and cube_name.
LandedRow(c) ==
    [cube_name : {c}, Region : RegionValues, Sales : PipeSales, Quantity : PipeQuantity,
     partition_month : {Period}]

NoDtypes == [Sales |-> "", Quantity |-> ""]
\* A path of the lake: no file, a complete parquet file, or the file a
\* write left behind that ended after the path was opened for writing.
NoFile == [exists |-> FALSE, rows |-> <<>>, dtypes |-> NoDtypes, torn |-> FALSE]
FileOf(rows, dtypes) == [exists |-> TRUE, rows |-> rows, dtypes |-> dtypes, torn |-> FALSE]
TornFile == [exists |-> TRUE, rows |-> <<>>, dtypes |-> NoDtypes, torn |-> TRUE]

\* pd.read_parquet returns the frame of a complete file and raises on a
\* torn one.
Readable(f) == f.exists /\ ~f.torn

NoGate == [stage |-> "none", cube |-> "", kind |-> "skipped", intact |-> TRUE,
           returned |-> <<>>, issues |-> {}, event |-> ""]

PipeInit ==
    /\ bronze_files = [c \in Cubes |-> NoFile]
    /\ silver_files = [c \in Cubes |-> NoFile]
    /\ gold_files = [c \in Cubes |-> NoFile]
    /\ stage = "idle"
    /\ all_cubes = [c \in Cubes |-> NoFile]
    /\ todo = {}
    /\ historical_data = [c \in Cubes |-> NoHistory]
    /\ hist_df = NoHistory
    /\ gate = NoGate
    /\ outcome = [stage |-> "none", result |-> "none"]
    /\ clock = 0
    /\ landings = 0
    /\ errors = {}
    /\ faults = 0

\* The gate of a pass, as the pass records it: whether run_data_quality
\* returned or raised, the frame it returned, whether that is the frame it
\* was given, and what it reported.
GateOf(st, c, given, q) ==
    [stage |-> st, cube |-> c, kind |-> q.kind, intact |-> (q.df = given),
     returned |-> q.df, issues |-> q.issues, event |-> q.event]

\* A pass that raised before it reached its gate.
GateSkipped(st, c) == [NoGate EXCEPT !.stage = st, !.cube = c]

\* DataFrame.to_parquet(file_path), as save_bronze, save_silver and
\* save_gold call it: the frame is converted to an Arrow table, then the
\* path is opened for writing, which empties the file, then the table is
\* written into it.  fault tells where the call ended: "none" is a write
\* that completed, "before_open" a raise that left the path alone,
\* "after_open" a raise or an interruption that left a torn file.
Faults == {"before_open", "after_open"}

to_parquet(prior, rows, dtypes, fault) ==
    IF fault = "none" THEN FileOf(rows, dtypes)
    ELSE IF fault = "before_open" THEN prior
    ELSE TornFile

\* bronze_transform.py:112-119
save_bronze(files, df, dtypes, cube_name, fault) ==
    [files EXCEPT ![cube_name] = to_parquet(files[cube_name], df, dtypes, fault)]

\* silver_transform.py:129-136
save_silver(files, df, dtypes, cube_name, fault) ==
    [files EXCEPT ![cube_name] = to_parquet(files[cube_name], df, dtypes, fault)]

\* gold_transform.py:102-109
save_gold(files, df, dtypes, cube_name, fault) ==
    [files EXCEPT ![cube_name] = to_parquet(files[cube_name], df, dtypes, fault)]

\* read_bronze_files and read_silver_files: the frame of every file that
\* can be read; a file whose read raises is logged and left out.
ReadFiles(files) == [c \in Cubes |-> IF Readable(files[c]) THEN files[c] ELSE NoFile]

ReadErrors(files) == {[cube |-> c, op |-> "read"] : c \in {d \in Cubes : files[d].torn}}

\* The except clause of the three loops: the error is logged under the
\* cube's name, and the for loop goes on with the cubes that are left.
Logged(log, c, raised, op) == IF raised THEN log \cup {[cube |-> c, op |-> op]} ELSE log

\* A loop that a raise ends.
LoopBreaks(remaining, c, raised) == IF raised THEN {} ELSE remaining \ {c}

LoopAfter(remaining, c, raised) == remaining \ {c}

\* save_to_bronze (extract_mdx.py:141-148): the source lands a batch.
SaveToBronze(c, rows) ==
    /\ stage = "idle"
    /\ landings < MaxLandings
    /\ landings' = landings + 1
    /\ bronze_files' = [bronze_files EXCEPT ![c] = FileOf(rows, InferDtypes(rows))]
    /\ UNCHANGED <<silver_files, gold_files, stage, all_cubes, todo, historical_data,
                   hist_df, gate, outcome, clock, errors, faults>>
    /\ UNCHANGED <<scdVars, auxVars>>

Land == \E c \in Cubes : \E rows \in SeqsUpTo(LandedRow(c), MaxRows) : SaveToBronze(c, rows)

\* The end of a loop over the cubes: pipeline_end is logged (lines 149,
\* 172, 145 of the three stages) and the entry point returns; its locals
\* are gone.
PipelineEnd ==
    /\ stage # "idle"
    /\ todo = {}
    /\ stage' = "idle"
    /\ outcome' = [stage |-> stage, result |-> "completed"]
    /\ all_cubes' = [c \in Cubes |-> NoFile]
    /\ historical_data' = [c \in Cubes |-> NoHistory]
    /\ hist_df' = NoHistory
    /\ gate' = NoGate
    /\ UNCHANGED <<bronze_files, silver_files, gold_files, todo, clock, landings, errors,
                   faults>>
    /\ UNCHANGED <<scdVars, auxVars>>

\* transform_bronze_layer up to its loop (bronze_transform.py:129-130);
\* glob finds nothing in a directory that is not there.
StartBronze ==
    /\ stage = "idle"
    /\ stage' = "bronze"
    /\ all_cubes' = ReadFiles(bronze_files)
    /\ todo' = {c \in Cubes : Readable(bronze_files[c])}
    /\ errors' = ReadErrors(bronze_files)
    /\ outcome' = [stage |-> "bronze", result |-> "running"]
    /\ UNCHANGED <<bronze_files, silver_files, gold_files, historical_data, hist_df, gate,
                   clock, landings, faults>>
    /\ UNCHANGED <<scdVars, auxVars>>

\* One pass of the loop of transform_bronze_layer (lines 131-147), with
\* the way its save ended.
BronzePass(c, month, fault) ==
    /\ stage = "bronze"
    /\ c \in todo
    /\ LET typed == enforce_column_types([rows |-> all_cubes[c].rows, dtypes |-> all_cubes[c].dtypes])
           df == add_metadata_columns(typed, c, month)
           q == run_data_quality_bronze(df.rows)
           raised == q.kind # "returned" \/ fault # "none"
       IN  /\ gate' = GateOf("bronze", c, df.rows, q)
           /\ bronze_files' = IF q.kind = "returned"
                              THEN save_bronze(bronze_files, q.df, df.dtypes, c, fault)
                              ELSE bronze_files
           /\ errors' = Logged(errors, c, raised,
                               IF q.kind = "returned" THEN "write" ELSE "transform")
           /\ todo' = LoopAfter(todo, c, raised)
           /\ faults' = IF fault = "none" THEN faults ELSE faults + 1
    /\ UNCHANGED <<silver_files, gold_files, stage, all_cubes, historical_data, hist_df,
                   outcome, clock, landings>>
    /\ UNCHANGED <<scdVars, auxVars>>

BronzeCube(c, month) == BronzePass(c, month, "none")

\* transform_silver_layer up to its loop (silver_transform.py:146-149);
\* os.listdir raises when ./data/bronze/ is not there, which is before the
\* first save into it.
StartSilver ==
    /\ stage = "idle"
    /\ IF \E c \in Cubes : bronze_files[c].exists
       THEN /\ stage' = "silver"
            /\ all_cubes' = ReadFiles(bronze_files)
            /\ todo' = {c \in Cubes : Readable(bronze_files[c])}
            /\ errors' = ReadErrors(bronze_files)
            /\ historical_data' = [c \in Cubes |-> NoHistory]
            /\ outcome' = [stage |-> "silver", result |-> "running"]
       ELSE /\ outcome' = [stage |-> "silver", result |-> "raised"]
            /\ errors' = {}
            /\ UNCHANGED <<stage, all_cubes, todo, historical_data>>
    /\ UNCHANGED <<bronze_files, silver_files, gold_files, hist_df, gate, clock, landings,
                   faults>>
    /\ UNCHANGED <<scdVars, auxVars>>

\* One pass of the loop of transform_silver_layer (lines 151-170), with
\* the way its save ended.  build_dimensions (line 154) only builds frames
\* that are logged.
SilverPass(c, fault) ==
    /\ stage = "silver"
    /\ c \in todo
    /\ clock < MaxClock
    /\ clock' = clock + 1
    /\ LET hist == historical_data[c]
           r == apply_scd_type2(all_cubes[c].rows, hist, clock + 1)
           q == run_data_quality_silver(r.df)
           transformed == r.kind = "returned" /\ q.kind = "returned"
           raised == ~transformed \/ fault # "none"
       IN  /\ hist_df' = hist
           /\ IF r.kind = "returned"
              THEN /\ gate' = GateOf("silver", c, r.df, q)
                   /\ IF q.kind = "returned"
                      THEN /\ silver_files' = save_silver(silver_files, q.df,
                                                          all_cubes[c].dtypes, c, fault)
                           /\ historical_data' =
                                 IF fault = "none"
                                 THEN [historical_data EXCEPT
                                          ![c] = [isNone |-> FALSE, rows |-> q.df]]
                                 ELSE historical_data
                      ELSE UNCHANGED <<silver_files, historical_data>>
              ELSE /\ gate' = GateSkipped("silver", c)
                   /\ historical_data' = [historical_data EXCEPT ![c] = r.historical_df]
                   /\ UNCHANGED silver_files
           /\ errors' = Logged(errors, c, raised, IF transformed THEN "write" ELSE "transform")
           /\ todo' = LoopAfter(todo, c, raised)
           /\ faults' = IF fault = "none" THEN faults ELSE faults + 1
    /\ UNCHANGED <<bronze_files, gold_files, stage, all_cubes, outcome, landings>>
    /\ UNCHANGED <<scdVars, auxVars>>

SilverCube(c) == SilverPass(c, "none")

\* transform_gold_layer up to its loop (gold_transform.py:119-120);
\* os.listdir raises when ./data/silver/ is not there.
StartGold ==
    /\ stage = "idle"
    /\ IF \E c \in Cubes : silver_files[c].exists
       THEN /\ stage' = "gold"
            /\ all_cubes' = ReadFiles(silver_files)
            /\ todo' = {c \in Cubes : Readable(silver_files[c])}
            /\ errors' = ReadErrors(silver_files)
            /\ outcome' = [stage |-> "gold", result |-> "running"]
       ELSE /\ outcome' = [stage |-> "gold", result |-> "raised"]
            /\ errors' = {}
            /\ UNCHANGED <<stage, all_cubes, todo>>
    /\ UNCHANGED <<bronze_files, silver_files, gold_files, historical_data, hist_df, gate,
                   clock, landings, faults>>
    /\ UNCHANGED <<scdVars, auxVars>>

\* Line 133: the KPI map as constant columns beside the aggregated rows.
WithKpis(rows, kpis) ==
    [i \in DOMAIN rows |->
        [c \in DOMAIN rows[i] \cup DOMAIN kpis |->
            IF c \in DOMAIN kpis THEN kpis[c] ELSE rows[i][c]]]

\* One pass of the loop of transform_gold_layer (lines 122-143), with the
\* way its save ended.
GoldPass(c, fault) ==
    /\ stage = "gold"
    /\ c \in todo
    /\ LET df == enrich_with_dimensions(all_cubes[c].rows)
           group_by == SelectSeq(GROUP_BY_COLS, LAMBDA g : g \in Columns(df))
           a == aggregate_gold(df, group_by)
           k == calculate_kpis(a.rows, Columns(a.rows))
           df_agg == WithKpis(a.rows, k.kpis)
           q == run_data_quality_gold(df_agg)
           transformed == a.kind = "returned" /\ k.kind = "returned" /\ q.kind = "returned"
           raised == ~transformed \/ fault # "none"
       IN  /\ IF a.kind = "returned" /\ k.kind = "returned"
              THEN /\ gate' = GateOf("gold", c, df_agg, q)
                   /\ gold_files' = IF q.kind = "returned"
                                    THEN save_gold(gold_files, q.df, NoDtypes, c, fault)
                                    ELSE gold_files
              ELSE /\ gate' = GateSkipped("gold", c)
                   /\ UNCHANGED gold_files
           /\ errors' = Logged(errors, c, raised, IF transformed THEN "write" ELSE "transform")
           /\ todo' = LoopAfter(todo, c, raised)
           /\ faults' = IF fault = "none" THEN faults ELSE faults + 1
    /\ UNCHANGED <<bronze_files, silver_files, stage, all_cubes, historical_data, hist_df,
                   outcome, clock, landings>>
    /\ UNCHANGED <<scdVars, auxVars>>

GoldCube(c) == GoldPass(c, "none")

\* The passes whose save fails; at most MaxFaults saves fail.
StorageFails == faults < MaxFaults

BronzeSaveFails(c, month) == StorageFails /\ \E fault \in Faults : BronzePass(c, month, fault)

SilverSaveFails(c) == StorageFails /\ \E fault \in Faults : SilverPass(c, fault)

GoldSaveFails(c) == StorageFails /\ \E fault \in Faults : GoldPass(c, fault)

\* ------------------------------------------------------------------------
\* The pipeline claims
\* ------------------------------------------------------------------------
\* The step is the pass of the running loop over cube c.
PassOf(c) == stage # "idle" /\ c \in todo /\ todo' = todo \ {c}

\* C9: in a run of the Silver stage for a cube that has a Silver snapshot,
\* the history passed to the merge is that snapshot, and the snapshot the
\* run writes still has the rows of the snapshot it replaces.
C9_HistoryIsPersistedSnapshot ==
    [][\A c \in Cubes :
          (PassOf(c) /\ stage = "silver" /\ silver_files[c].exists) =>
              /\ hist_df' = [isNone |-> FALSE, rows |-> silver_files[c].rows]
              /\ Range(silver_files[c].rows) \subseteq Range(silver_files'[c].rows)
      ]_vars

\* C10: in every stage and for every cube, run_data_quality returns the
\* frame it was given, unchanged, and the pass goes on to persist it as
\* the cube's snapshot, whether the report is empty or not.
C10_QualityGateAdvisory ==
    [][\A c \in Cubes :
          (PassOf(c) /\ gate'.kind # "skipped") =>
              /\ gate'.stage = stage /\ gate'.cube = c
              /\ gate'.kind = "returned"
              /\ gate'.intact
              /\ LET snapshot == IF stage = "bronze" THEN bronze_files'[c]
                                 ELSE IF stage = "silver" THEN silver_files'[c]
                                 ELSE gold_files'[c]
                 IN  snapshot.exists /\ snapshot.rows = gate'.returned
      ]_vars

\* A Gold pass whose gate reported issues and whose frame is the cube's
\* Gold snapshot, beside a Bronze snapshot of the cube that has a null.
C10_Witness ==
    /\ gate.stage = "gold"
    /\ gate.kind = "returned"
    /\ "nulls" \in gate.issues
    /\ gate.returned # <<>>
    /\ gold_files[gate.cube] = FileOf(gate.returned, NoDtypes)
    /\ HasNull(bronze_files[gate.cube].rows, "Sales")

\* ------------------------------------------------------------------------
\* The extraction (src/extract/extract_mdx.py)
\* ------------------------------------------------------------------------
MAX_RETRIES == 3
NUM_THREADS == 4

\* MDX_CUBES (line 31): the names of the configured cubes, in the order of
\* the configuration.
CubeNames == <<"c1", "c2", "c3", "c4", "c5", "c6", "c7", "c8">>
MDX_CUBES == SubSeq(CubeNames, 1, MaxCubes)

\* The table an attempt extracts: the rows the source has for that cube,
\* under the cube's name (line 88).  None is NoTable.
NoTable == [cube_name |-> "", rows |-> "none"]
TableOf(cube_config) == [cube_name |-> cube_config, rows |-> "extracted"]

\* A call of extract_cube: where it is, its local attempt while it runs,
\* and what it returned.
NoFuture == [state |-> "none", attempt |-> 0, result |-> NoTable]

\* A bound that is one attempt late.
ExhaustedLate(attempt) == attempt > MAX_RETRIES

\* Line 95: the retries are used up.
Exhausted(attempt) == attempt >= MAX_RETRIES

\* One turn of the while loop of extract_cube (lines 73-98) for the cube
\* cube_config: the attempt succeeds and the table is returned, or it
\* raises, the error is counted, and the call raises, goes round again,
\* or leaves the loop and returns None.
extract_cube(f, cube_config, ok) ==
    IF ok
    THEN [state |-> "returned", attempt |-> 0, result |-> TableOf(cube_config)]
    ELSE LET attempt == f.attempt + 1
         IN  IF Exhausted(attempt)
             THEN [state |-> "raised", attempt |-> 0, result |-> NoTable]
             ELSE IF attempt < MAX_RETRIES
             THEN [state |-> "running", attempt |-> attempt, result |-> NoTable]
             ELSE [state |-> "returned", attempt |-> 0, result |-> NoTable]

Done(f) == f.state \in {"returned", "raised"}

\* A map that names every future after the cube submitted last.
future_to_last(i) == MDX_CUBES[Len(MDX_CUBES)]

\* future_to_cube (line 115), by the position of the cube.
future_to_cube(i) == MDX_CUBES[i]

NoResults == [name \in Range(MDX_CUBES) |-> NoTable]

ExtractInit ==
    /\ futures = [i \in DOMAIN MDX_CUBES |-> NoFuture]
    /\ extraction = [mode |-> "none", results |-> NoResults, reported |-> {},
                     collected |-> {}, returned |-> FALSE]

\* extract_all_cubes is called (lines 110-115, 125): in parallel mode
\* every cube is submitted to the pool.
ExtractAllCubes(parallel) ==
    /\ extraction.mode = "none"
    /\ extraction' = [extraction EXCEPT !.mode = IF parallel THEN "parallel" ELSE "sequential"]
    /\ futures' = IF parallel
                  THEN [i \in DOMAIN MDX_CUBES |-> [NoFuture EXCEPT !.state = "pending"]]
                  ELSE futures
    /\ UNCHANGED <<scdVars, pipeVars, call>>

\* A worker of the pool takes the oldest work item; the pool has
\* NUM_THREADS workers.
WorkerStarts(i) ==
    /\ extraction.mode = "parallel"
    /\ futures[i].state = "pending"
    /\ \A j \in 1..(i - 1) : futures[j].state # "pending"
    /\ Cardinality({j \in DOMAIN futures : futures[j].state = "running"}) < NUM_THREADS
    /\ futures' = [futures EXCEPT ![i].state = "running"]
    /\ UNCHANGED <<scdVars, pipeVars, call, extraction>>

\* The sequential loop calls extract_cube for the next cube (lines
\* 126-129).
SequentialCall(i) ==
    /\ extraction.mode = "sequential"
    /\ futures[i].state = "none"
    /\ extraction.collected = 1..(i - 1)
    /\ futures' = [futures EXCEPT ![i].state = "running"]
    /\ UNCHANGED <<scdVars, pipeVars, call, extraction>>

\* One attempt of a running call.
Attempt(i, ok) ==
    /\ futures[i].state = "running"
    /\ futures[i].attempt < MAX_RETRIES
    /\ futures' = [futures EXCEPT ![i] = extract_cube(futures[i], MDX_CUBES[i], ok)]
    /\ UNCHANGED <<scdVars, pipeVars, call, extraction>>

\* The caller takes the outcome of a call that is done: as_completed
\* yields the futures in the order they complete (lines 116-123), the
\* sequential loop has the outcome of the call it made (lines 128-133).
Collect(i) ==
    /\ extraction.mode \in {"parallel", "sequential"}
    /\ Done(futures[i])
    /\ i \notin extraction.collected
    /\ LET cube_name == IF extraction.mode = "parallel" THEN future_to_cube(i)
                        ELSE MDX_CUBES[i]
       IN  extraction' =
              IF futures[i].state = "returned"
              THEN [extraction EXCEPT !.collected = @ \cup {i},
                                      !.results[cube_name] = futures[i].result]
              ELSE [extraction EXCEPT !.collected = @ \cup {i},
                                      !.reported = @ \cup {cube_name}]
    /\ UNCHANGED <<scdVars, pipeVars, call, futures>>

\* Line 135.
ReturnResults ==
    /\ extraction.mode # "none"
    /\ ~extraction.returned
    /\ extraction.collected = DOMAIN MDX_CUBES
    /\ extraction' = [extraction EXCEPT !.returned = TRUE]
    /\ UNCHANGED <<scdVars, pipeVars, call, futures>>

ExtractNext ==
    \/ \E parallel \in BOOLEAN : ExtractAllCubes(parallel)
    \/ \E i \in DOMAIN MDX_CUBES : WorkerStarts(i)
    \/ \E i \in DOMAIN MDX_CUBES : SequentialCall(i)
    \/ \E i \in DOMAIN MDX_CUBES, ok \in BOOLEAN : Attempt(i, ok)
    \/ \E i \in DOMAIN MDX_CUBES : Collect(i)
    \/ ReturnResults

\* C14: a call of extract_cube makes at most MAX_RETRIES attempts: every
\* attempt is the first, the second or the third; an attempt that succeeds
\* ends the call with its table, a failed first or second attempt is
\* followed by another, the third failed attempt ends the call with the
\* error; a call that has ended makes no further attempt, and a call that
\* returned has a table.
C14_BoundedRetries ==
    [][\A i \in DOMAIN MDX_CUBES :
          /\ (futures[i].state = "running" /\ futures'[i] # futures[i]) =>
                /\ futures[i].attempt + 1 <= MAX_RETRIES
                /\ \/ futures'[i] = [state |-> "returned", attempt |-> 0,
                                      result |-> TableOf(MDX_CUBES[i])]
                   \/ /\ futures'[i].state = "running"
                      /\ futures'[i].attempt = futures[i].attempt + 1
                      /\ futures[i].attempt + 1 < MAX_RETRIES
                   \/ /\ futures'[i].state = "raised"
                      /\ futures[i].attempt + 1 = MAX_RETRIES
          /\ Done(futures[i]) => futures'[i] = futures[i]
          /\ futures'[i].state = "returned" => futures'[i].result # NoTable
      ]_vars

\* One call has raised after its third attempt, one has returned its
\* table, and one is about to make its third attempt.
C14_Witness ==
    \E i, j, k \in DOMAIN MDX_CUBES :
        /\ futures[i].state = "raised"
        /\ futures[j].state = "returned" /\ futures[j].result = TableOf(MDX_CUBES[j])
        /\ futures[k].state = "running" /\ futures[k].attempt = MAX_RETRIES - 1

\* C15: in both modes the result map has, for a cube, nothing or the
\* table its own call returned, and only a cube whose call raised is
\* reported; when extract_all_cubes returns, every call has ended, the
\* keys of the map are exactly the cubes whose call returned, each with
\* its own table, and the cubes whose call raised are reported and not in
\* the map.
C15_ResultsAreTheSucceeded ==
    \A i \in DOMAIN MDX_CUBES :
        LET name == MDX_CUBES[i]
        IN  /\ extraction.results[name] # NoTable =>
                  /\ futures[i].state = "returned"
                  /\ extraction.results[name] = futures[i].result
                  /\ extraction.results[name].cube_name = name
            /\ name \in extraction.reported => futures[i].state = "raised"
            /\ extraction.returned =>
                  /\ Done(futures[i])
                  /\ futures[i].state = "returned" => extraction.results[name] # NoTable
                  /\ futures[i].state = "raised" => name \in extraction.reported

\* A parallel extraction has returned a map with the tables of two cubes,
\* without the two cubes it reported.
C15_Witness ==
    /\ extraction.returned
    /\ extraction.mode = "parallel"
    /\ Cardinality({name \in Range(MDX_CUBES) : extraction.results[name] # NoTable}) >= 2
    /\ Cardinality(extraction.reported) >= 2

\* ------------------------------------------------------------------------
\* The functions that are checked on their own: one call, on a table drawn
\* from the tables of at most MaxLen rows
\* ------------------------------------------------------------------------
NoCall == [fn |-> "none"]

FnInit == call = NoCall

\* The tables aggregate_gold is called on: a Sales column beside the key
\* columns of one of the four subsets of {Region, partition_month}; a
\* Region may be missing.
AggSales == {5, 10, 20}
AggRegions == {"A", "B", NA_STRING}
AggShapes == {"none", "Region", "partition_month", "both"}

AggRows(shape) ==
    IF shape = "none" THEN [Sales : AggSales]
    ELSE IF shape = "Region" THEN [Region : AggRegions, Sales : AggSales]
    ELSE IF shape = "partition_month" THEN [partition_month : {Period}, Sales : AggSales]
    ELSE [Region : AggRegions, partition_month : {Period}, Sales : AggSales]

\* gold_transform.py:128-129: aggregate_gold is called with the key
\* columns that the table has.
CallAggregateGold(df) ==
    /\ call = NoCall
    /\ LET group_by == SelectSeq(GROUP_BY_COLS, LAMBDA g : g \in Columns(df))
       IN  call' = [fn |-> "aggregate_gold", df |-> df, group_by |-> group_by,
                    result |-> aggregate_gold(df, group_by)]
    /\ UNCHANGED <<scdVars, pipeVars, futures, extraction>>

\* C16: aggregate_gold on a table with a measure column returns one row
\* for every distinct combination of the values of the key columns the
\* table has, with the configured functions of the measure over the rows
\* of that combination; a table with none of the key columns is one
\* combination.
C16_OneRowPerGroup ==
    (call.fn = "aggregate_gold" /\ {"Sales", "Quantity"} \cap Columns(call.df) # {}) =>
        LET present == {g \in Range(GROUP_BY_COLS) : g \in Columns(call.df)}
            keyOf(r) == [c \in present |-> r[c]]
            combos == {keyOf(call.df[i]) : i \in DOMAIN call.df}
            group(k) == SelectSeq(call.df, LAMBDA r : keyOf(r) = k)
            out == call.result.rows
        IN  /\ call.result.kind = "returned"
            /\ Len(out) = Cardinality(combos)
            /\ \A k \in combos :
                  \E n \in DOMAIN out :
                      /\ \A c \in present : out[n][c] = k[c]
                      /\ \A a \in {x \in AGGREGATIONS : x.col \in Columns(call.df)} :
                            out[n][a.name] = Aggregate(a.func, ColumnValues(group(k), a.col))

\* C24: for every table with a Sales column and at least one grouping
\* column, the sum of Sales_sum over the rows aggregate_gold returns equals
\* the sum of Sales over the input rows: every input row, a row whose key
\* is null included, is counted in exactly one group.
C24_MeasureConserved ==
    (call.fn = "aggregate_gold" /\ "Sales" \in Columns(call.df) /\ call.group_by # <<>>) =>
        /\ call.result.kind = "returned"
        /\ SumSeq(ColumnValues(call.result.rows, "Sales_sum"))
              = SumSeq(ColumnValues(call.df, "Sales"))

\* The frames rolling_average is called on: one Sales column, values that
\* may be null; the column asked for is Sales or a column the frame has
\* not.
RollSales == {NULL, 10, 20, 30, 40}
RollColumns == {"Sales", "Stock"}

CallRollingAverage(df, column, window) ==
    /\ call = NoCall
    /\ call' = [fn |-> "rolling_average", df |-> df, column |-> column, window |-> window,
                result |-> rolling_average(df, column, window)]
    /\ UNCHANGED <<scdVars, pipeVars, futures, extraction>>

\* The window of position i: positions max(1, i - w + 1)..i, and the
\* values of the window that are not null.
WindowOf(values, w, i) == SubSeq(values, IF i - w + 1 > 1 THEN i - w + 1 ELSE 1, i)
Observed(values) == SelectSeq(values, LAMBDA v : v # NULL)

SameRatio(r, sum, n) == r.den # 0 /\ r.num * n = sum * r.den

\* The claim as the specification words it: every position holds the mean
\* of the values of its window and no position is left empty.
C18_NoPositionEmpty ==
    (call.fn = "rolling_average" /\ call.column \in Columns(call.df)) =>
        LET values == ColumnValues(call.df, call.column)
        IN  /\ Len(call.result) = Len(values)
            /\ \A i \in DOMAIN values :
                  LET obs == Observed(WindowOf(values, call.window, i))
                  IN  /\ obs # <<>>
                      /\ SameRatio(call.result[i], SumSeq(obs), Len(obs))

\* C18: rolling_average with window w and no grouping returns, for every
\* position i of the column, the mean of the values at positions
\* max(0, i-w+1)..i that are not null, so early positions hold the partial
\* average; a position is empty exactly when every value of its window is
\* null.
C18_RollingAverage ==
    (call.fn = "rolling_average" /\ call.column \in Columns(call.df)) =>
        LET values == ColumnValues(call.df, call.column)
        IN  /\ Len(call.result) = Len(values)
            /\ \A i \in DOMAIN values :
                  LET obs == Observed(WindowOf(values, call.window, i))
                  IN  IF obs = <<>>
                      THEN call.result[i].den = 0
                      ELSE SameRatio(call.result[i], SumSeq(obs), Len(obs))

\* Window 3 over [10, 20, 30, 40] gave [10, 15, 20, 30].
C18_Witness ==
    /\ call.fn = "rolling_average"
    /\ call.column = "Sales"
    /\ call.window = 3
    /\ ColumnValues(call.df, "Sales") = <<10, 20, 30, 40>>
    /\ Len(call.result) = 4
    /\ SameRatio(call.result[1], 10, 1)
    /\ SameRatio(call.result[2], 15, 1)
    /\ SameRatio(call.result[3], 20, 1)
    /\ SameRatio(call.result[4], 30, 1)

\* The tables validate_nulls is called on, and the thresholds.
NullRows == [Sales : {NULL, 100, 200, 300}, Quantity : {NULL, 1}]
NullThresholds == {Ratio(0, 1), Ratio(1, 4), Ratio(1, 2)}

CallValidateNulls(df, threshold) ==
    /\ call = NoCall
    /\ call' = [fn |-> "validate_nulls", df |-> df, threshold |-> threshold,
                result |-> validate_nulls(df, threshold)]
    /\ UNCHANGED <<scdVars, pipeVars, futures, extraction>>

\* The columns of the call's table whose null ratio is strictly greater
\* than the call's threshold.
OverThreshold ==
    {c \in Columns(call.df) :
        NullCount(call.df, c) * call.threshold.den > call.threshold.num * Len(call.df)}

\* The claim as the specification words it: the report has exactly the
\* columns whose null ratio is strictly greater than the threshold, each
\* with its ratio, null count divided by row count.
C19_ReportsTheRatio ==
    call.fn = "validate_nulls" =>
        /\ DOMAIN call.result = OverThreshold
        /\ \A c \in DOMAIN call.result :
              call.result[c] * Len(call.df) = NullCount(call.df, c) * RATIO_UNIT

\* C19: validate_nulls(table, threshold) reports exactly the columns whose
\* null ratio (null count divided by row count) is strictly greater than
\* threshold, each with its ratio rounded to four decimal places, and no
\* other column.
C19_ReportsTheRoundedRatio ==
    call.fn = "validate_nulls" =>
        /\ DOMAIN call.result = OverThreshold
        /\ \A c \in DOMAIN call.result :
              LET off == call.result[c] * Len(call.df) - NullCount(call.df, c) * RATIO_UNIT
              IN  -Len(call.df) <= 2 * off /\ 2 * off <= Len(call.df)

\* Sales = [100, null, 200, 300] with threshold 0.0 gave {Sales: 0.25}.
C19_Witness ==
    /\ call.fn = "validate_nulls"
    /\ call.threshold = Ratio(0, 1)
    /\ ColumnValues(call.df, "Sales") = <<100, NULL, 200, 300>>
    /\ \A i \in DOMAIN call.df : call.df[i].Quantity # NULL
    /\ DOMAIN call.result = {"Sales"}
    /\ call.result.Sales * 4 = RATIO_UNIT

\* The frames enforce_column_types is called on: some of the columns
\* Sales, Quantity and Date in some order, at most MaxFrameRows rows, cells
\* that may be null or a text that cannot be cast.
TypedColumns == {"Sales", "Quantity", "Date"}
ColumnLists ==
    {cols \in SeqsUpTo(TypedColumns, Cardinality(TypedColumns)) :
        cols # <<>> /\ \A i, j \in DOMAIN cols : i # j => cols[i] # cols[j]}

CellValues(c) ==
    IF c = "Sales" THEN {10, NULL, UNPARSABLE}
    ELSE IF c = "Quantity" THEN {1, NULL, UNPARSABLE}
    ELSE {1, UNPARSABLE}

RowsOver(cols) ==
    {r \in [Range(cols) -> UNION {CellValues(c) : c \in TypedColumns}] :
        \A c \in Range(cols) : r[c] \in CellValues(c)}

\* The dtype pandas gives a column it reads: object when it holds a text,
\* and a date is read as text.
SourceDtype(rows, c) ==
    IF c = "Date" \/ \E i \in DOMAIN rows : rows[i][c] = UNPARSABLE THEN "object"
    ELSE IF c = "Quantity" /\ ~HasNull(rows, c) THEN "int64"
    ELSE "float64"

TypedFrame(cols, rows) ==
    [rows |-> rows, dtypes |-> [c \in Range(cols) |-> SourceDtype(rows, c)], columns |-> cols]

CallEnforceColumnTypes(df) ==
    /\ call = NoCall
    /\ call' = [fn |-> "enforce_column_types", df |-> df, result |-> enforce_column_types(df)]
    /\ UNCHANGED <<scdVars, pipeVars, futures, extraction>>

Declared(c) == \E k \in DOMAIN COLUMN_TYPES : COLUMN_TYPES[k].col = c
ConfiguredType(c) == (CHOOSE t \in Range(COLUMN_TYPES) : t.col = c).dtype

\* C20: enforce_column_types returns the batch, with its rows and the
\* order of its columns as they were; a declared column whose cast fails
\* keeps its values and its type, and every other declared column that is
\* present has its configured type, whatever the order of the columns and
\* whichever casts failed before it.
C20_PartialDegradation ==
    call.fn = "enforce_column_types" =>
        /\ call.result.rows = call.df.rows
        /\ call.result.columns = call.df.columns
        /\ DOMAIN call.result.dtypes = DOMAIN call.df.dtypes
        /\ \A c \in DOMAIN call.df.dtypes :
              IF ~Declared(c) \/ CastFails(call.df, c, ConfiguredType(c))
              THEN call.result.dtypes[c] = call.df.dtypes[c]
              ELSE call.result.dtypes[c] = TargetDtype(ConfiguredType(c))

\* The cast of Sales, the first declared column, failed and Sales is as it
\* was, while Quantity and Date, which come before Sales in the frame and
\* after it in the configuration, were cast.
C20_Witness ==
    /\ call.fn = "enforce_column_types"
    /\ call.df.columns = <<"Date", "Quantity", "Sales">>
    /\ call.df.rows # <<>>
    /\ CastFails(call.df, "Sales", "float")
    /\ call.result.dtypes.Sales = "object"
    /\ call.result.dtypes.Quantity = "int64"
    /\ call.result.dtypes.Date = "datetime64[ns]"

\* The frames add_metadata_columns is called on: a Sales column, with or
\* without a partition column and a Date column.
MetaDates == {20251105, 20251130, 20251201}
MetaShapes == {"none", "Date", "partition_month", "both"}

MetaRows(shape) ==
    IF shape = "none" THEN [Sales : {10}]
    ELSE IF shape = "Date" THEN [Sales : {10}, Date : MetaDates]
    ELSE IF shape = "partition_month" THEN [Sales : {10}, partition_month : Months]
    ELSE [Sales : {10}, Date : MetaDates, partition_month : Months]

\* Two runs of add_metadata_columns on the same frame of the same cube, one
\* in the month today and one in the month later.
CallAddMetadataColumns(rows, today, later) ==
    /\ call = NoCall
    /\ LET df == Frame(rows, [Sales |-> "float64"])
       IN  call' = [fn |-> "add_metadata_columns", df |-> rows, today |-> today, later |-> later,
                    result |-> add_metadata_columns(df, Cube, today).rows,
                    again |-> add_metadata_columns(df, Cube, later).rows]
    /\ UNCHANGED <<scdVars, pipeVars, futures, extraction>>

\* C21: the partition column of a frame is the same whenever the run takes
\* place: a frame that has the column keeps its values; otherwise each row
\* gets the month of its Date; otherwise every row gets one default
\* period, the same in both runs.
C21_PartitionDeterministic ==
    call.fn = "add_metadata_columns" =>
        /\ Len(call.result) = Len(call.df)
        /\ \A i \in DOMAIN call.df :
              /\ call.result[i].partition_month = call.again[i].partition_month
              /\ "partition_month" \in DOMAIN call.df[i] =>
                    call.result[i].partition_month = call.df[i].partition_month
              /\ ("partition_month" \notin DOMAIN call.df[i] /\ "Date" \in DOMAIN call.df[i]) =>
                    call.result[i].partition_month = MonthOf(call.df[i].Date)

\* The tables the KPI functions are called on: the set of their columns
\* and up to MaxLen rows over these columns, none included.
KpiMeasures == {"Sales", "Quantity", "Stock"}
KpiShapes == {{"Sales"}, {"Stock"}, {"Sales", "Quantity"}, {"Quantity"}}

KpiRows(cols) ==
    {r \in [cols -> {NULL, 1, 10, 20}] :
        /\ "Sales" \in cols => r.Sales \in {NULL, 10, 20}
        /\ "Quantity" \in cols => r.Quantity = 1
        /\ "Stock" \in cols => r.Stock \in {NULL, 10}}

\* total, mean, maximum and minimum of one column of one table.
CallMetrics(rows, cols, column) ==
    /\ call = NoCall
    /\ call' = [fn |-> "metrics", df |-> rows, cols |-> cols, column |-> column,
                total |-> total(rows, cols, column), mean |-> mean(rows, cols, column),
                maximum |-> maximum(rows, cols, column),
                minimum |-> minimum(rows, cols, column)]
    /\ UNCHANGED <<scdVars, pipeVars, futures, extraction>>

CallCalculateKpis(rows, cols) ==
    /\ call = NoCall
    /\ call' = [fn |-> "calculate_kpis", df |-> rows, cols |-> cols,
                result |-> calculate_kpis(rows, cols)]
    /\ UNCHANGED <<scdVars, pipeVars, futures, extraction>>

\* C22: total, mean, maximum and minimum return 0 when the column is
\* absent or the table has no rows, and calculate_kpis returns a KPI map
\* without raising for every table, a table that has a measure column and
\* no rows included.
C22_NeutralDefaults ==
    /\ (call.fn = "metrics" /\ (call.column \notin call.cols \/ call.df = <<>>)) =>
          /\ call.total = 0
          /\ call.mean.den # 0 /\ call.mean.num = 0
          /\ call.maximum = 0
          /\ call.minimum = 0
    /\ call.fn = "calculate_kpis" => call.result.kind = "returned"

\* ------------------------------------------------------------------------
\* Read-side surface (src/api/api.py)
\* ------------------------------------------------------------------------
\* A file name is the sequence of its parts between the dots:
\* c1_gold.parquet is <<"c1_gold", "parquet">>.  A text cell is the
\* sequence of its characters.
PARQUET == "parquet"

\* f.endswith(".parquet"), line 53
EndsWithParquet(f) == Len(f) >= 2 /\ f[Len(f)] = PARQUET

\* get_gold_tables (lines 49-54): the names of the directory that end in
\* .parquet, as os.listdir gives them; the order of the listing, which
\* the file system chooses, is left out.
get_gold_tables(gold) == {f \in DOMAIN gold : gold[f].exists /\ EndsWithParquet(f)}

\* Line 60: os.path.join(GOLD_PATH, f"{table_name}.parquet")
FilePathOf(table_name) == Append(table_name, PARQUET)

\* load_table (lines 56-75) in a process whose CACHE is empty: 404 when
\* the file does not exist, else the table of the file.
load_table(gold, table_name) ==
    LET file_path == FilePathOf(table_name)
    IN  IF file_path \notin DOMAIN gold \/ ~gold[file_path].exists
        THEN [kind |-> "raised", status |-> 404, cols |-> {}, rows |-> <<>>]
        ELSE [kind |-> "returned", status |-> 200,
              cols |-> gold[file_path].cols, rows |-> gold[file_path].rows]

\* str.contains(value, case=False) of line 176 on a text without regex
\* metacharacters: value occurs in the cell, letter case apart.
Lower(ch) == IF ch = "A" THEN "a" ELSE IF ch = "B" THEN "b" ELSE ch

Contains(cell, value) ==
    \E i \in 0..(Len(cell) - Len(value)) :
        \A k \in 1..Len(value) : Lower(cell[i + k]) = Lower(value[k])

Head_(rows, limit) == SubSeq(rows, 1, IF Len(rows) < limit THEN Len(rows) ELSE limit)

\* search_tables (lines 160-180): the loop loads every listed table; the
\* first load that raises ends the request with its status.  The entries
\* are given as a set.
search_tables(gold, column, value, limit) ==
    LET tables == get_gold_tables(gold)
        matches(t) == SelectSeq(load_table(gold, t).rows, LAMBDA r : Contains(r[column], value))
        hits == {t \in tables : column \in load_table(gold, t).cols /\ matches(t) # <<>>}
    IN  IF \E t \in tables : load_table(gold, t).kind = "raised"
        THEN [kind |-> "raised", status |-> 404, results |-> {}]
        ELSE [kind |-> "returned", status |-> 200,
              results |-> {[table |-> t, rows |-> Head_(matches(t), limit)] : t \in hits}]

\* The Gold directories of the model: the files the Gold stage writes for
\* two cubes, a file that is no table, and a file whose name ends in
\* .parquet.parquet.
GoldNames ==
    {<<"c1_gold", PARQUET>>, <<"c2_gold", PARQUET>>, <<"c1_gold", PARQUET, PARQUET>>,
     <<"readme", "txt">>}

AbsentFile == [exists |-> FALSE, cols |-> {}, rows |-> <<>>]
RegionTable(cells) ==
    [exists |-> TRUE, cols |-> {"Region"}, rows |-> [i \in DOMAIN cells |-> [Region |-> cells[i]]]]

GoldTables ==
    {RegionTable(<<>>), RegionTable(<<<<"a">>>>),
     RegionTable(<<<<"A", "b">>, <<"b">>, <<"a">>>>),
     [exists |-> TRUE, cols |-> {"Sales"}, rows |-> <<[Sales |-> 10]>>]}

GoldDirs ==
    {gold \in [GoldNames -> GoldTables \cup {AbsentFile}] :
        /\ gold[<<"readme", "txt">>] \in {AbsentFile, RegionTable(<<>>)}
        /\ gold[<<"c1_gold", PARQUET, PARQUET>>] \in {AbsentFile, RegionTable(<<<<"a">>>>)}}

SearchColumns == {"Region", "City"}
SearchValues == {<<"a">>, <<"B">>, <<"a", "b">>}

CallSearchTables(gold, column, value, limit) ==
    /\ call = NoCall
    /\ call' = [fn |-> "search_tables", gold |-> gold, column |-> column, value |-> value,
                limit |-> limit, result |-> search_tables(gold, column, value, limit)]
    /\ UNCHANGED <<scdVars, pipeVars, futures, extraction>>

\* The Gold tables of the call's directory: its files that are tables.
TablesHeld == {f \in DOMAIN call.gold : call.gold[f].exists /\ EndsWithParquet(f)}

MatchingRows(f) ==
    IF call.column \in call.gold[f].cols
    THEN SelectSeq(call.gold[f].rows, LAMBDA r : Contains(r[call.column], call.value))
    ELSE <<>>

\* C23: whenever the Gold directory holds one or more tables, search_tables
\* completes normally and returns one entry for every Gold table that has
\* the column and at least one row whose value contains the search value,
\* each entry holding at most limit matching rows; and every table name
\* listed by get_gold_tables is loadable by load_table.
C23_SearchAcrossTables ==
    (call.fn = "search_tables" /\ TablesHeld # {}) =>
        /\ call.result.kind = "returned"
        /\ call.result.results =
              {[table |-> f, rows |-> Head_(MatchingRows(f), call.limit)] :
                  f \in {g \in TablesHeld : MatchingRows(g) # <<>>}}
        /\ \A e \in call.result.results : Len(e.rows) <= call.limit
        /\ \A t \in get_gold_tables(call.gold) : load_table(call.gold, t).kind = "returned"

\* ------------------------------------------------------------------------
\* The storage claims, stated of one scheduled execution of the pipeline
\* ------------------------------------------------------------------------
Tiers == {"bronze", "silver", "gold"}

\* The step is the pass of the running loop over cube c, however it ends.
LoopPass(c) == stage # "idle" /\ c \in todo /\ c \notin todo'

\* The step is a pass over cube c whose save raised.
SaveRaised(c) == [cube |-> c, op |-> "write"] \in errors' \ errors

\* C11: a snapshot path that holds a complete snapshot holds a complete
\* snapshot after every step, and still the same one after a step whose
\* save of that snapshot failed or was interrupted; a reader never finds
\* the path torn or empty.
C11_AtomicPersistence ==
    [][\A c \in Cubes :
          /\ Readable(bronze_files[c]) =>
                /\ Readable(bronze_files'[c])
                /\ (stage = "bronze" /\ SaveRaised(c)) => bronze_files'[c] = bronze_files[c]
          /\ Readable(silver_files[c]) =>
                /\ Readable(silver_files'[c])
                /\ (stage = "silver" /\ SaveRaised(c)) => silver_files'[c] = silver_files[c]
          /\ Readable(gold_files[c]) =>
                /\ Readable(gold_files'[c])
                /\ (stage = "gold" /\ SaveRaised(c)) => gold_files'[c] = gold_files[c]
      ]_vars

\* C12: an entry point in whose run the read of a snapshot or the write
\* of a snapshot raised does not end as completed.
C12_StorageFailureIsFatal ==
    outcome.result = "completed" => \A e \in errors : e.op \notin {"read", "write"}

\* C13: in every stage, a pass that raises is caught and logged under its
\* cube: the loop goes on with the cubes that are left, the snapshots and
\* the frames of the other cubes are as they were, a pass that did not
\* raise has persisted its frame as the cube's snapshot whatever happened
\* to the cubes before it, and the run ends only when every cube had its
\* pass.
C13_PerCubeIsolation ==
    [][/\ \A c \in Cubes :
             LoopPass(c) =>
                /\ stage' = stage
                /\ todo' = todo \ {c}
                /\ \/ errors' = errors
                   \/ \E op \in {"write", "transform"} :
                         errors' = errors \cup {[cube |-> c, op |-> op]}
                /\ \A d \in Cubes \ {c} :
                      /\ bronze_files'[d] = bronze_files[d]
                      /\ silver_files'[d] = silver_files[d]
                      /\ gold_files'[d] = gold_files[d]
                      /\ all_cubes'[d] = all_cubes[d]
                /\ errors' = errors =>
                      LET snapshot == IF stage = "bronze" THEN bronze_files'[c]
                                      ELSE IF stage = "silver" THEN silver_files'[c]
                                      ELSE gold_files'[c]
                      IN  /\ gate'.kind = "returned"
                          /\ Readable(snapshot)
                          /\ snapshot.rows = gate'.returned
       /\ (stage # "idle" /\ stage' = "idle") => todo = {}
      ]_vars

\* In each stage: the pass over one cube raised and was logged, and the
\* pass after it has persisted the other cube of the run.
C13_Witness ==
    /\ stage \in Tiers
    /\ todo = {}
    /\ \E c \in Cubes :
          /\ gate.cube # c
          /\ gate.cube \in Cubes
          /\ [cube |-> c, op |-> "write"] \in errors
          /\ \A e \in errors : e.cube = c
          /\ gate.kind = "returned"
          /\ gate.returned # <<>>
          /\ LET snapshot == IF stage = "bronze" THEN bronze_files[gate.cube]
                              ELSE IF stage = "silver" THEN silver_files[gate.cube]
                              ELSE gold_files[gate.cube]
             IN  Readable(snapshot) /\ snapshot.rows = gate.returned

\* C17: the Gold table persisted for a cube whose Silver snapshot has a
\* Sales or a Quantity column has, on every row, the KPI columns of that
\* measure, each with one value on every row.
KpiNames(col) ==
    UNION {{k.total, k.avg, k.max, k.min, k.cumulative, k.rolling_avg} :
              k \in {u \in KPI_COLUMNS : u.col = col}}

C17_KpiBroadcast ==
    [][\A c \in Cubes :
          (PassOf(c) /\ stage = "gold") =>
              \A col \in {"Sales", "Quantity"} \cap Columns(all_cubes[c].rows) :
                  /\ Readable(gold_files'[c])
                  /\ \A i \in DOMAIN gold_files'[c].rows :
                        \A n \in KpiNames(col) :
                            /\ n \in DOMAIN gold_files'[c].rows[i]
                            /\ gold_files'[c].rows[i][n] = gold_files'[c].rows[1][n]
      ]_vars

Init == ScdInit /\ PipeInit /\ ExtractInit /\ FnInit

ScdNext == RunHistoryStage

SpecScd == Init /\ [][ScdNext]_vars

Next ==
    \/ Land
    \/ StartBronze
    \/ \E c \in Cubes, month \in Months : BronzeCube(c, month)
    \/ StartSilver
    \/ \E c \in Cubes : SilverCube(c)
    \/ StartGold
    \/ \E c \in Cubes : GoldCube(c)
    \/ PipelineEnd

Spec == Init /\ [][Next]_vars

\* One execution of the pipeline as it is scheduled, on a storage that may
\* fail a save: the source lands its batches, then the three entry points
\* run in the order of the tiers, each once.
Scheduled(st) ==
    IF st = "bronze" THEN outcome.stage = "none"
    ELSE IF st = "silver" THEN outcome = [stage |-> "bronze", result |-> "completed"]
    ELSE outcome = [stage |-> "silver", result |-> "completed"]

NextStorage ==
    \/ outcome.stage = "none" /\ Land
    \/ Scheduled("bronze") /\ StartBronze
    \/ Scheduled("silver") /\ StartSilver
    \/ Scheduled("gold") /\ StartGold
    \/ \E c \in Cubes, month \in Months : BronzeCube(c, month)
    \/ \E c \in Cubes : SilverCube(c)
    \/ \E c \in Cubes : GoldCube(c)
    \/ PipelineEnd
    \/ \E c \in Cubes, month \in Months : BronzeSaveFails(c, month)
    \/ \E c \in Cubes : SilverSaveFails(c)
    \/ \E c \in Cubes : GoldSaveFails(c)

SpecStorage == Init /\ [][NextStorage]_vars

SpecExtract == Init /\ [][ExtractNext]_vars

\* One call of one function; nothing follows a call.
FnNext ==
    \/ call = NoCall /\ \E shape \in AggShapes : \E df \in SeqsUpTo(AggRows(shape), MaxLen) : CallAggregateGold(df)
    \/ call = NoCall /\ \E df \in SeqsUpTo([Sales : RollSales], MaxLen), column \in RollColumns, window \in 1..MaxWindow :
          CallRollingAverage(df, column, window)
    \/ call = NoCall /\ \E df \in SeqsUpTo(NullRows, MaxLen) \ {<<>>}, threshold \in NullThresholds :
          CallValidateNulls(df, threshold)
    \/ call = NoCall /\ \E cols \in ColumnLists : \E rows \in SeqsUpTo(RowsOver(cols), MaxFrameRows) :
          CallEnforceColumnTypes(TypedFrame(cols, rows))
    \/ call = NoCall /\ \E shape \in MetaShapes : \E rows \in SeqsUpTo(MetaRows(shape), MaxLen) :
          \E today, later \in Months : CallAddMetadataColumns(rows, today, later)
    \/ call = NoCall /\ \E shape \in KpiShapes : \E rows \in SeqsUpTo(KpiRows(shape), MaxLen) :
          \E column \in KpiMeasures : CallMetrics(rows, shape, column)
    \/ call = NoCall /\ \E shape \in KpiShapes : \E rows \in SeqsUpTo(KpiRows(shape), MaxLen) :
          CallCalculateKpis(rows, shape)
    \/ call = NoCall /\ \E gold \in GoldDirs, column \in SearchColumns, value \in SearchValues,
                           limit \in 1..MaxLimit :
          CallSearchTables(gold, column, value, limit)

SpecFn == Init /\ [][FnNext]_vars

====
